---------------------------- MODULE Spec2Model ----------------------------
(***************************************************************************)
(* Model of varcal_minion.py: the driver (__main__) and the mapping stage  *)
(* (minimap2_mapping).  One run of the script is one behaviour: Init is    *)
(* the command line, the input directory and the output tree the run is    *)
(* started against; each action is one statement block of the script.     *)
(*                                                                         *)
(* A read-file name is the sequence of the '_'-separated fields of the     *)
(* part of the name before its first '.', so "HQ_S1_r1.fastq" is           *)
(* <<"HQ", "S1", "r1">> and "notes.txt" is <<"notes">>.                    *)
(***************************************************************************)
EXTENDS Integers, Sequences, FiniteSets, TLC

VARIABLES
    pc,             \* position of the script
    args,           \* parsed command line: sample_list, chunks
    files,          \* Samples_Fastq/Filtered_Fastq in os.walk order
    list_file,      \* lines of the file args.sample_list names
    fastq,          \* result of extract_read_list
    sample_list,    \* __main__ sample_list
    sample_list_F,  \* __main__ sample_list_F
    logged,         \* the number in "{} Samples will be analysed", -1 before
    dirs,           \* directories that exist under the output root
    bam,            \* per sample key: writes of <key>.sort.bam so far, 0 = absent
    bai,            \* per sample key: <key>.sort.bam.bai exists
    fai,            \* the reference index exists
    regions,        \* the region-list file exists
    idx,            \* minimap2_mapping: position in the walk
    calls,          \* external invocations made so far, with their exit status
    stages,         \* the blocks of __main__ entered so far, in order
    skipped,        \* walk positions where the EXIST branch was taken
    exit_code,      \* exit status of the process, -1 while running
    run,            \* number of this run against the output directory
    at_start,       \* the alignment files and indexes on disk when it started
    prev_calls      \* the external invocations of the run before this one

vars == << pc, args, files, list_file, fastq, sample_list, sample_list_F,
           logged, dirs, bam, bai, fai, regions, idx, calls, stages,
           skipped, exit_code, run, at_start, prev_calls >>

-----------------------------------------------------------------------------
(* Bounds and inputs *)

MaxFiles == 2

MaxRuns == 2

DefaultChunks == 144679

Names == { <<"HQ", "S1", "r1">>, <<"HQ", "S1", "r2">>, <<"HQ", "S2", "r1">>,
           <<"LQ", "S2", "r1">>, <<"notes">> }

Keys == {"S1", "S2"}

AllowLists == { <<"S1">>, <<"S1", "S3">>, <<"S3", "S2">> }

ChunkArgs == {0, 2, DefaultChunks}

Range(s) == { s[j] : j \in 1..Len(s) }

\* the possible listings of a directory of at most n files
Walks(n) ==
    UNION { { w \in [1..k -> Names] :
                \A a, b \in 1..k : a # b => w[a] # w[b] } : k \in 0..n }

-----------------------------------------------------------------------------
(* Helpers of misc_ion, as the specification describes them *)

\* a read file carries the quality-filtered marker
IsReadFile(name) == name[1] = "HQ"

extract_read_list(listing) == SelectSeq(listing, IsReadFile)

\* HQ_S1_run1.fastq -> S1
extract_sample_list(name) == name[2]

file_to_list(lines) == lines

\* create if absent, no error if present
check_create_dir(existing, d) == existing \cup {d}

\* the wrapper raises on a non-zero exit status
execute_subprocess(rc) == IF rc = 0 THEN "returned" ELSE "raised"

\* a chunk count the partitioner accepts
ValidChunks(n) == n > 0

-----------------------------------------------------------------------------
(* minimap2_mapping, lines 167-191 *)

\* name.split('.')[0].split('_')[1] raises IndexError on a name without '_'
HasKey(name) == Len(name) >= 2

filename_out(name) == name[2]

\* lines 172-175: the artifact and index paths under out_sorted_bam
filename_bam_out(key) == << key, "sort.bam" >>

filename_bai_out(key) == << key, "sort.bam.bai" >>

\* lines 184-185: the path samtools sort -o writes
cmd_minimap2(key) == filename_bam_out(key)

\* line 189: the path samtools index is given
cmd_indexing_bai(key) == filename_bai_out(key)

cmd_indexing(key) == filename_bam_out(key)

\* args.reference, the path lines 303 and 305 pass on
reference == << "reference", "fa" >>

\* line 178: os.path.isfile(filename_bai_out)
SkipSample_never(key) == FALSE

SkipSample_bam(key) == bam[key] > 0

SkipSample(key) == bai[key]

\* lines 187-189: no handler around execute_subprocess, the exception
\* leaves the loop and the function
AfterPipeline_swallow(outcome) == "map_index"

AfterPipeline(outcome) == IF outcome = "raised" THEN "failed" ELSE "map_index"

\* line 191, then the next iteration of the loop
AfterIndex(outcome) == IF outcome = "raised" THEN "failed" ELSE "mapping"

-----------------------------------------------------------------------------
(* __main__, lines 199-308: the order of its blocks *)

NextBlock_mapping_last(block) ==
    CASE block = "start" -> "resolve"
      [] block = "resolve" -> "filter"
      [] block = "filter" -> "layout"
      [] block = "layout" -> "faidx"
      [] block = "faidx" -> "mapping"
      [] block = "mapping" -> "chunks"
      [] block = "chunks" -> "done"

NextBlock(block) ==
    CASE block = "start" -> "resolve"
      [] block = "resolve" -> "filter"
      [] block = "filter" -> "layout"
      [] block = "layout" -> "mapping"
      [] block = "mapping" -> "faidx"
      [] block = "faidx" -> "chunks"
      [] block = "chunks" -> "done"

Enter(block) == IF block \in {"resolve", "layout", "mapping", "faidx", "chunks"}
                THEN Append(stages, block) ELSE stages

Call(cmd, target, rc) == [cmd |-> cmd, target |-> target, rc |-> rc]

\* an uncaught exception ends the process with status 1, the end of the
\* script with status 0
ExitOf(p) == IF p = "done" THEN 0 ELSE IF p = "failed" THEN 1 ELSE 0 - 1

\* lines 268-272: the directories __main__ passes to check_create_dir
CreatedDirs == {"Bam", "Variants"}

\* lines 274-286: the paths __main__ only joins
DeclaredDirs == {"Stats", "Stats/Bamstats", "Stats/Coverage", "Compare",
                 "Annotation", "Annotation/snpeff", "Annotation/user",
                 "Annotation/user_aa", "Annotation/blast"}

SampleKeys(reads) == [j \in 1..Len(reads) |-> extract_sample_list(reads[j])]

-----------------------------------------------------------------------------
Init ==
    /\ pc = "start"
    /\ args \in [sample_list : {"None", "samples.txt"}, chunks : ChunkArgs]
    /\ files \in Walks(MaxFiles)
    /\ list_file \in IF args.sample_list = "None" THEN { <<>> } ELSE AllowLists
    /\ fastq = <<>>
    /\ sample_list = <<>>
    /\ sample_list_F = <<>>
    /\ logged = 0 - 1
    \* a fresh output root, or the tree an earlier run left behind
    /\ dirs \in { {}, {"output", "Logs", "Bam", "Variants"} }
    /\ bam \in IF "Bam" \in dirs THEN [Keys -> 0..1] ELSE { [k \in Keys |-> 0] }
    /\ bai \in IF "Bam" \in dirs THEN [Keys -> BOOLEAN]
                                 ELSE { [k \in Keys |-> FALSE] }
    /\ fai \in BOOLEAN
    /\ regions = FALSE
    /\ idx = 1
    /\ calls = <<>>
    /\ stages = <<>>
    /\ skipped = {}
    /\ exit_code = 0 - 1
    /\ run = 1
    /\ at_start = [bam |-> bam, bai |-> bai]
    /\ prev_calls = <<>>

-----------------------------------------------------------------------------
(* __main__ *)

\* lines 199-237: arguments, output root, log folder, logger
Startup ==
    /\ pc = "start"
    /\ dirs' = check_create_dir(check_create_dir(dirs, "output"), "Logs")
    /\ pc' = NextBlock("start")
    /\ stages' = Enter(pc')
    /\ UNCHANGED << run, at_start, prev_calls, args, files, list_file, fastq, sample_list, sample_list_F,
                    logged, bam, bai, fai, regions, idx, calls, skipped,
                    exit_code >>

\* lines 241-252: read list, sample list, the count line of the log
ResolveSamples ==
    /\ pc = "resolve"
    /\ fastq' = extract_read_list(files)
    /\ sample_list' = SampleKeys(fastq')
    /\ logged' = Len(sample_list')
    /\ pc' = NextBlock("resolve")
    /\ stages' = Enter(pc')
    /\ UNCHANGED << run, at_start, prev_calls, args, files, list_file, sample_list_F, dirs, bam, bai, fai,
                    regions, idx, calls, skipped, exit_code >>

\* lines 256-264
FilterSamples ==
    /\ pc = "filter"
    /\ sample_list_F' = IF args.sample_list = "None"
                        THEN SampleKeys(fastq)
                        ELSE file_to_list(list_file)
    /\ pc' = NextBlock("filter")
    /\ stages' = Enter(pc')
    /\ UNCHANGED << run, at_start, prev_calls, args, files, list_file, fastq, sample_list, logged, dirs,
                    bam, bai, fai, regions, idx, calls, skipped, exit_code >>

\* lines 268-286
DeclareFolders ==
    /\ pc = "layout"
    /\ dirs' = dirs \cup CreatedDirs
    /\ pc' = NextBlock("layout")
    /\ stages' = Enter(pc')
    /\ UNCHANGED << run, at_start, prev_calls, args, files, list_file, fastq, sample_list, sample_list_F,
                    logged, bam, bai, fai, regions, idx, calls, skipped,
                    exit_code >>

-----------------------------------------------------------------------------
(* minimap2_mapping, called at line 295 *)

AtFile == pc = "mapping" /\ idx <= Len(files)

\* line 170 on a name with no '_': IndexError
MappingBadName ==
    /\ AtFile
    /\ ~HasKey(files[idx])
    /\ pc' = "failed"
    /\ exit_code' = ExitOf(pc')
    /\ UNCHANGED << run, at_start, prev_calls, args, files, list_file, fastq, sample_list, sample_list_F,
                    logged, dirs, bam, bai, fai, regions, idx, calls, stages,
                    skipped >>

\* lines 178-180
MappingSkip ==
    /\ AtFile
    /\ HasKey(files[idx])
    /\ SkipSample(filename_out(files[idx]))
    /\ skipped' = skipped \cup {idx}
    /\ idx' = idx + 1
    /\ UNCHANGED << pc, run, at_start, prev_calls, args, files,
                    list_file, fastq, sample_list,
                    sample_list_F, logged, dirs, bam, bai, fai, regions, calls,
                    stages, exit_code >>

\* lines 182-187: the shell pipeline ending in samtools sort -o; a failed
\* pipeline may or may not have left an output file
MappingAlign ==
    /\ AtFile
    /\ HasKey(files[idx])
    /\ ~SkipSample(filename_out(files[idx]))
    /\ \E rc \in {0, 1}, written \in BOOLEAN :
          /\ rc = 0 => written
          /\ calls' = Append(calls, Call("minimap2", cmd_minimap2(filename_out(files[idx])), rc))
          /\ bam' = IF written
                    THEN [bam EXCEPT ![filename_out(files[idx])] = @ + 1]
                    ELSE bam
          /\ pc' = AfterPipeline(execute_subprocess(rc))
    /\ exit_code' = ExitOf(pc')
    /\ UNCHANGED << run, at_start, prev_calls, args, files, list_file, fastq, sample_list, sample_list_F,
                    logged, dirs, bai, fai, regions, idx, stages, skipped >>

\* lines 189-191: samtools index
MappingIndex ==
    /\ pc = "map_index"
    /\ \E rc \in {0, 1}, written \in BOOLEAN :
          /\ rc = 0 => written
          /\ calls' = Append(calls,
                             Call("index", cmd_indexing(filename_out(files[idx])), rc))
          /\ bai' = IF written
                    THEN [bai EXCEPT ![filename_out(files[idx])] = TRUE]
                    ELSE bai
          /\ pc' = AfterIndex(execute_subprocess(rc))
    /\ idx' = IF pc' = "failed" THEN idx ELSE idx + 1
    /\ exit_code' = ExitOf(pc')
    /\ UNCHANGED << run, at_start, prev_calls, args, files, list_file, fastq, sample_list, sample_list_F,
                    logged, dirs, bam, fai, regions, stages, skipped >>

\* the walk is exhausted, minimap2_mapping returns
MappingDone ==
    /\ pc = "mapping"
    /\ idx > Len(files)
    /\ pc' = NextBlock("mapping")
    /\ stages' = Enter(pc')
    /\ UNCHANGED << run, at_start, prev_calls, args, files, list_file, fastq, sample_list, sample_list_F,
                    logged, dirs, bam, bai, fai, regions, idx, calls, skipped,
                    exit_code >>

-----------------------------------------------------------------------------
(* line 303: samtools_faidx; line 305: create_reference_chunks *)

\* the index is on disk: reuse it
FaidxReuse ==
    /\ pc = "faidx"
    /\ fai
    /\ pc' = NextBlock("faidx")
    /\ stages' = Enter(pc')
    /\ UNCHANGED << run, at_start, prev_calls, args, files, list_file, fastq, sample_list, sample_list_F,
                    logged, dirs, bam, bai, fai, regions, idx, calls, skipped,
                    exit_code >>

FaidxCreate ==
    /\ pc = "faidx"
    /\ ~fai
    /\ \E rc \in {0, 1} :
          /\ calls' = Append(calls, Call("faidx", reference, rc))
          /\ fai' = (rc = 0)
          /\ pc' = IF execute_subprocess(rc) = "raised"
                   THEN "failed" ELSE NextBlock("faidx")
    /\ stages' = Enter(pc')
    /\ exit_code' = ExitOf(pc')
    /\ UNCHANGED << run, at_start, prev_calls, args, files, list_file, fastq, sample_list, sample_list_F,
                    logged, dirs, bam, bai, regions, idx, skipped >>

\* an invalid chunk count fails before any partitioning work
ChunksInvalid ==
    /\ pc = "chunks"
    /\ ~ValidChunks(args.chunks)
    /\ pc' = "failed"
    /\ exit_code' = ExitOf(pc')
    /\ UNCHANGED << run, at_start, prev_calls, args, files, list_file, fastq, sample_list, sample_list_F,
                    logged, dirs, bam, bai, fai, regions, idx, calls, stages,
                    skipped >>

\* lines 305-308: the partition step, then the end of the script
ChunksCreate ==
    /\ pc = "chunks"
    /\ ValidChunks(args.chunks)
    /\ \E rc \in {0, 1} :
          /\ calls' = Append(calls, Call("regions", reference, rc))
          /\ regions' = (rc = 0)
          /\ pc' = IF execute_subprocess(rc) = "raised"
                   THEN "failed" ELSE NextBlock("chunks")
    /\ exit_code' = ExitOf(pc')
    /\ UNCHANGED << run, at_start, prev_calls, args, files, list_file, fastq, sample_list, sample_list_F,
                    logged, dirs, bam, bai, fai, idx, stages, skipped >>

\* the script is started again on the same command line, input directory
\* and output directory after a run that failed in minimap2_mapping
Rerun ==
    /\ pc = "failed"
    /\ stages[Len(stages)] = "mapping"
    /\ run < MaxRuns
    /\ run' = run + 1
    /\ at_start' = [bam |-> bam, bai |-> bai]
    /\ prev_calls' = calls
    /\ pc' = "start"
    /\ fastq' = <<>>
    /\ sample_list' = <<>>
    /\ sample_list_F' = <<>>
    /\ logged' = 0 - 1
    /\ idx' = 1
    /\ calls' = <<>>
    /\ stages' = <<>>
    /\ skipped' = {}
    /\ exit_code' = 0 - 1
    /\ UNCHANGED << args, files, list_file, dirs, bam, bai, fai, regions >>

Next ==
    \/ Startup
    \/ ResolveSamples
    \/ FilterSamples
    \/ DeclareFolders
    \/ MappingBadName
    \/ MappingSkip
    \/ MappingAlign
    \/ MappingIndex
    \/ MappingDone
    \/ FaidxReuse
    \/ FaidxCreate
    \/ ChunksInvalid
    \/ ChunksCreate
    \/ Rerun

Spec == Init /\ [][Next]_vars

TypeOK ==
    /\ pc \in {"start", "resolve", "filter", "layout", "mapping", "map_index",
                "faidx", "chunks", "done", "failed"}
    /\ idx \in 1..(Len(files) + 1)
    /\ exit_code \in {0 - 1, 0, 1}
    /\ \A k \in Keys : bam[k] \in Nat
-----------------------------------------------------------------------------
(* Properties *)

IsPrefix(s, t) == Len(s) <= Len(t) /\ \A j \in 1..Len(s) : s[j] = t[j]

BothExist(key) == bam[key] > 0 /\ bai[key]

MappingCalls == { j \in 1..Len(calls) : calls[j].cmd \in {"minimap2", "index"} }

Ended == pc \in {"done", "failed"}

\* C1: whenever minimap2_mapping reaches a file whose sample has both
\* <key>.sort.bam and <key>.sort.bam.bai on disk, that step makes no external
\* invocation and leaves the artifact and the index as they were.
C1_IdempotentSkip ==
    [][ (AtFile /\ HasKey(files[idx]) /\ BothExist(filename_out(files[idx])))
          => (calls' = calls /\ bam' = bam /\ bai' = bai) ]_vars

\* a file was skipped whose artifact and index both exist
C1_Witness ==
    \E p \in skipped : BothExist(filename_out(files[p]))

C3_LayoutFirst ==
    IsPrefix(stages, << "layout", "resolve", "mapping", "faidx", "chunks" >>)

CallRank(cmd) == IF cmd \in {"minimap2", "index"} THEN 1
                 ELSE IF cmd = "faidx" THEN 2 ELSE 3

\* C3 amended: sample resolution and reporting, then creation of the Bam and
\* Variants directories, then mapping of all files, then reference indexing,
\* then reference partitioning; each block starts after the previous one has
\* finished: the count is logged before the directories are created, the
\* directories exist before mapping starts, and the external invocations
\* occur in the order mapping, reference index, partition.
C3_StageOrder ==
    /\ IsPrefix(stages, << "resolve", "layout", "mapping", "faidx", "chunks" >>)
    /\ "layout" \in Range(stages) => logged >= 0
    /\ "mapping" \in Range(stages) => CreatedDirs \subseteq dirs
    /\ "faidx" \in Range(stages) => idx > Len(files)
    /\ "chunks" \in Range(stages) => fai
    /\ \A a, b \in 1..Len(calls) :
          a < b => CallRank(calls[a].cmd) <= CallRank(calls[b].cmd)
    /\ \A j \in 1..Len(calls) :
          CASE CallRank(calls[j].cmd) = 1 -> "mapping" \in Range(stages)
            [] CallRank(calls[j].cmd) = 2 -> "faidx" \in Range(stages)
            [] OTHER -> "chunks" \in Range(stages)

\* a run that went through all five blocks and invoked all three kinds of step
C3_Witness ==
    /\ pc = "done"
    /\ stages = << "resolve", "layout", "mapping", "faidx", "chunks" >>
    /\ \E a, b, c \in 1..Len(calls) :
          /\ calls[a].cmd = "index"
          /\ calls[b].cmd = "faidx"
          /\ calls[c].cmd = "regions"

\* C4: once the filter block has run, the working set is the intersection of
\* the discovered samples and the allow-list when a list is supplied, and
\* the discovered samples when none is.
C4_Filtering ==
    "layout" \in Range(stages) =>
        Range(sample_list_F) =
            IF args.sample_list = "None"
            THEN Range(sample_list)
            ELSE Range(sample_list) \cap Range(list_file)

\* C5: the resolved sample list holds no identifier twice, and the logged
\* count is the number of distinct samples.
C5_DuplicateFree ==
    logged >= 0 =>
        /\ \A a, b \in 1..Len(sample_list) :
              a # b => sample_list[a] # sample_list[b]
        /\ logged = Cardinality(Range(sample_list))

\* C6: in a run started with --chunks N, N <= 0, no external invocation is
\* ever made and the run ends with a non-zero exit status.
C6_InvalidChunks ==
    args.chunks <= 0 =>
        /\ calls = <<>>
        /\ Ended => exit_code = 1

\* C7: when mapping starts, every directory of the output skeleton exists.
C7_Layout ==
    "mapping" \in Range(stages) => (CreatedDirs \cup DeclaredDirs) \subseteq dirs

\* C8: when the input directory holds no matching read file, the resolved
\* list is empty, the logged count is zero, mapping makes no external
\* invocation, and neither resolution nor mapping fails.
C8_EmptyInput ==
    extract_read_list(files) = <<>> =>
        /\ logged >= 0 => logged = 0 /\ sample_list = <<>>
        /\ MappingCalls = {}
        /\ pc = "failed" => "faidx" \in Range(stages)

\* C10: a file is skipped only when both the sorted alignment file and its
\* index exist for its sample.
C10_SkipOnlyWhenBoth ==
    \A p \in skipped : BothExist(filename_out(files[p]))

AlignCalls(key) ==
    { j \in 1..Len(calls) :
        calls[j].cmd = "minimap2" /\ calls[j].target = filename_bam_out(key) }

AllSucceeded == \A j \in 1..Len(calls) : calls[j].rc = 0

\* C11: with an allow-list supplied, the step taken at a read file whose
\* sample key is not in the list makes no external invocation.
C11_OnlyAllowListed ==
    [][ ( /\ args.sample_list # "None"
          /\ AtFile
          /\ HasKey(files[idx])
          /\ IsReadFile(files[idx])
          /\ filename_out(files[idx]) \notin Range(list_file) )
          => calls' = calls ]_vars

\* the index step is only ever invoked right after the pipeline that wrote
\* the same artifact path, and while the index step is pending that pipeline
\* is the last invocation made
IndexFollowsPipeline ==
    /\ \A j \in 1..Len(calls) :
          calls[j].cmd = "index" =>
              /\ j > 1
              /\ calls[j - 1].cmd = "minimap2"
              /\ calls[j - 1].target = calls[j].target
    /\ pc = "map_index" =>
          /\ Len(calls) >= 1
          /\ calls[Len(calls)] \in
                { Call("minimap2", filename_bam_out(filename_out(files[idx])), rc) :
                    rc \in {0, 1} }

\* the step taken at a file whose index is absent is the pipeline writing
\* that sample's artifact
PipelineWhenIndexAbsent ==
    ( /\ AtFile
      /\ HasKey(files[idx])
      /\ ~bai[filename_out(files[idx])] )
      => /\ Len(calls') = Len(calls) + 1
         /\ calls'[Len(calls')].cmd = "minimap2"
         /\ calls'[Len(calls')].target =
                filename_bam_out(filename_out(files[idx]))

\* C12: for a file whose index is absent when the loop reaches it the
\* pipeline writing its artifact is invoked first, and the index step is
\* invoked only after that pipeline has exited and on the same artifact
\* path, never before or without it.
C12_AlignThenIndex ==
    []IndexFollowsPipeline /\ [][PipelineWhenIndexAbsent]_vars

\* a sample with no index was aligned and then indexed
C12_Witness ==
    \E j \in 2..Len(calls), k \in Keys :
        /\ ~at_start.bai[k]
        /\ calls[j - 1] = Call("minimap2", filename_bam_out(k), 0)
        /\ calls[j].cmd = "index"
        /\ calls[j].target = filename_bam_out(k)

\* C13: in a rerun after a run that failed during mapping the aligner is
\* invoked only for samples whose index was absent when the rerun started,
\* never for a sample whose index step succeeded in the earlier run, and,
\* once mapping has finished, for every file of the walk whose index was
\* absent; if every external step of the rerun succeeded, every discovered
\* sample then has an index file.
C13_Resume ==
    run > 1 =>
      /\ \A j \in 1..Len(calls) :
            calls[j].cmd = "minimap2" =>
                \E k \in Keys : /\ calls[j].target = filename_bam_out(k)
                                /\ ~at_start.bai[k]
      /\ \A i \in 1..Len(prev_calls) :
            (prev_calls[i].cmd = "index" /\ prev_calls[i].rc = 0) =>
                \A j \in 1..Len(calls) :
                    calls[j].cmd = "minimap2" =>
                        calls[j].target # prev_calls[i].target
      /\ "faidx" \in Range(stages) =>
            \A p \in 1..Len(files) :
                ~at_start.bai[filename_out(files[p])] =>
                    AlignCalls(filename_out(files[p])) # {}
      /\ ("faidx" \in Range(stages) /\ AllSucceeded) =>
            \A k \in Range(sample_list) : bai[k]

\* a rerun that skipped the sample the earlier run completed, aligned the
\* one it had failed on and finished mapping with every step succeeding
C13_Witness ==
    /\ run > 1
    /\ "faidx" \in Range(stages)
    /\ AllSucceeded
    /\ \E p \in skipped, i \in 1..Len(prev_calls) :
          prev_calls[i] = Call("index", filename_bam_out(filename_out(files[p])), 0)
    /\ \E k \in Range(sample_list) : AlignCalls(k) # {}

SameKey(p, q) ==
    /\ HasKey(files[p])
    /\ HasKey(files[q])
    /\ filename_out(files[p]) = filename_out(files[q])

\* C14: when the loop has passed two files of the same sample key in a run
\* that started with no index for that key and whose external steps all
\* succeeded, the later file was skipped, the aligner was invoked once for
\* the key, and the artifact was written once.
C14_DuplicateKeyOnce ==
    \A p, q \in 1..Len(files) :
        ( /\ p < q
          /\ SameKey(p, q)
          /\ ~at_start.bai[filename_out(files[q])]
          /\ idx > q
          /\ AllSucceeded )
          => /\ q \in skipped
             /\ Cardinality(AlignCalls(filename_out(files[q]))) = 1
             /\ bam[filename_out(files[q])] =
                    at_start.bam[filename_out(files[q])] + 1

\* two files of one key were passed, the first aligned, the second skipped
C14_Witness ==
    \E p, q \in 1..Len(files) :
        /\ p < q
        /\ SameKey(p, q)
        /\ ~at_start.bai[filename_out(files[q])]
        /\ idx > q
        /\ AllSucceeded
        /\ p \notin skipped
        /\ q \in skipped
        /\ calls[1] = Call("minimap2", filename_bam_out(filename_out(files[p])), 0)

=============================================================================
